---- MODULE Spec2Model ----
(***************************************************************************)
(* Token-bucket rate limiter of gov_uk_mcp/rate_limiter.py.                *)
(*                                                                         *)
(* Numbers.  The code computes with floats; the model computes the same    *)
(* arithmetic exactly, on integers:                                        *)
(*   - the clock (time.time()) is a whole number of seconds;               *)
(*   - a token count is held in sixtieths of a token, so that the refill   *)
(*     elapsed * rate, with rate = requests_per_minute / 60.0 per second,  *)
(*     is the integer elapsed * requests_per_minute;                       *)
(*   - a bucket's rate is held as rate * 60 (its requests per minute);     *)
(*   - a reset timestamp now + deficit / rate is the exact rational        *)
(*     at + num / den (seconds), kept as the record [at, num, den].        *)
(* int(x) truncates toward zero, as Python's int does.                     *)
(*                                                                         *)
(* Threads.  Each thread runs one call at a time (check_limit, the         *)
(* rate_limit wrapper, get_status, reset); a call is cut into steps at     *)
(* the places where it takes a lock or reads the clock, and the steps of   *)
(* different threads interleave freely.                                    *)
(*                                                                         *)
(* Time.  The clock is observed only where the code reads it, so time      *)
(* passes at the reads: a step that calls time.time() gets the clock       *)
(* advanced by some d >= 0 since the previous read of any thread.          *)
(*                                                                         *)
(* Specifications.                                                         *)
(*   Spec       two threads, every operation cut into its steps;           *)
(*   FairSpec   Spec with every thread scheduled fairly;                   *)
(*   SeqSpec    a single caller: every call runs from its first line to    *)
(*              its return, time passes between the calls (time.sleep);    *)
(*   BurstSpec  the single caller of the burst and refill scenarios of     *)
(*              tests/test_rate_limiter.py: one endpoint, one limit (60 or *)
(*              10 per minute), cost 1, many calls.                        *)
(*   UsedSpec   Spec started from a limiter whose buckets exist already;   *)
(*   GlobalSpec the global limiter behind the convenience functions        *)
(*              (check_mot_limit, ...) and get_limiter().reset;            *)
(*   BucketSpec one TokenBucket constructed directly, under consume, peek  *)
(*              and a wall clock that can also be set back;                *)
(*   RegistrySpec a single caller using every kind of endpoint identifier, *)
(*              with _get_bucket also taken on its own.                    *)
(***************************************************************************)
EXTENDS Integers, FiniteSets, Sequences, TLC

\* ------------------------------------------------------------- bounds
\* Calls started in one run, and clock advances in one run.
MaxCalls == 2
MaxTicks == 1
\* Calls a single caller makes in one run.
MaxSeqCalls == 4
\* Calls made in one run of the burst and refill scenarios.
MaxBurstCalls == 61
\* Calls made on the global limiter in one run.
MaxGlobalCalls == 3
\* Calls made in one run on the registry with every kind of endpoint.
MaxRegistryCalls == 2
\* Calls made on a single bucket in one run, and changes of its clock.
MaxBucketCalls == 3
MaxBucketTicks == 2

\* ---------------------------------------------------------- constants
\* requests_per_minute / 60.0
SecondsPerMinute == 60
\* RateLimiter.DEFAULT_LIMITS
MotLimit == 120
CompaniesHouseLimit == 120
TflLimit == 500
DefaultLimit == 60
\* info.get("retry_after", 60) in the wrapper
RetryAfterFallback == 60
\* requests_per_minute as the convenience functions pass it
MotConvenienceLimit == 120
CompaniesHouseConvenienceLimit == 120
TflConvenienceLimit == 500
DefaultConvenienceLimit == 60

\* ------------------------------------------------------------- inputs
\* Threads are interchangeable: an idle thread holds no state.
Threads == {1, 2}
\* Endpoint identifiers used by the callers: one with a table entry, one without.
Endpoints == {"tfl", "x"}
\* requests_per_minute: None (NoRate) or a number.
NoRate == [given |-> FALSE, v |-> 0]
Rate(r) == [given |-> TRUE, v |-> r]
\* The requests_per_minute the callers of check_limit pass: "tfl" is left to
\* its table entry, "x" is given proper limits and the values the signature
\* also accepts (zero, negative).
RateValues == {1, 2, 0, -1}
Rates(endpoint) ==
  IF endpoint = "tfl" THEN {NoRate} ELSE {Rate(r) : r \in RateValues}
\* reset(): no endpoint given.
NoEndpoint == "<None>"
\* tokens: the cost of a call, in tokens.
Costs == {1, 2}
\* Seconds by which the clock may have advanced at a read (besides 0).
TickSteps == {45}
\* What a wrapped function returns: a dict without "error", a dict with
\* "error", something that is no dict.
FuncResults == {"dict_ok", "dict_error", "not_dict"}
\* The decorated functions: rate_limit(endpoint, requests_per_minute) is
\* fixed where the function is defined.
Decorated == {[endpoint |-> "tfl", rpm |-> NoRate],
              [endpoint |-> "x", rpm |-> Rate(1)]}

NoThread == 0
NoBucket == [exists |-> FALSE]
Null == [kind |-> "none"]

\* ------------------------------------------------------------ helpers
Min(a, b) == IF a <= b THEN a ELSE b
Abs(a) == IF a >= 0 THEN a ELSE -a

\* int(n / d): Python's int() of the quotient, truncating toward zero (d # 0).
TruncDiv(n, d) ==
  IF (n >= 0) = (d > 0) THEN Abs(n) \div Abs(d) ELSE -(Abs(n) \div Abs(d))

\* Mutant: the fallback for every endpoint, the table ignored.
DefaultLimitOfFallback(endpoint) == DefaultLimit

\* RateLimiter.DEFAULT_LIMITS.get(endpoint, DEFAULT_LIMITS["default"])
DefaultLimitOf(endpoint) ==
  CASE endpoint = "mot_api" -> MotLimit
    [] endpoint = "companies_house" -> CompaniesHouseLimit
    [] endpoint = "tfl" -> TflLimit
    [] OTHER -> DefaultLimit

VARIABLES
  clock,      \* time.time(), seconds
  nticks,     \* reads so far that found the clock advanced
  ncalls,     \* calls started so far
  buckets,    \* RateLimiter._buckets: endpoint -> TokenBucket or NoBucket
  keys,       \* RateLimiter._buckets: its keys, in insertion order
  rlock,      \* RateLimiter._lock: the thread holding it, or NoThread
  block,      \* TokenBucket.lock per endpoint: the thread holding it, or NoThread
  pc,         \* each thread's position
  call,       \* each thread's current call and its arguments
  loc,        \* each thread's local variables
  last,       \* what the step just taken returned, when it was a return
  created,    \* history: TokenBucket objects constructed per endpoint
  hist,       \* history: per endpoint, its calls and their results
  invoked,    \* history: invocations of wrapped functions
  wrapAllowed \* history: wrapper checks that came back allowed

vars == <<clock, nticks, ncalls, buckets, keys, rlock, block, pc, call, loc, last,
          created, hist, invoked, wrapAllowed>>

\* ------------------------------------------------------ TokenBucket
\* Mutant: a new bucket that starts empty instead of full.
NewBucketEmpty(rpm, now) ==
  [exists |-> TRUE,
   capacity |-> rpm,
   tokens |-> 0,
   rate |-> rpm,
   last_refill |-> now]

\* TokenBucket(capacity=requests_per_minute, tokens=requests_per_minute,
\* rate=requests_per_minute / 60.0); last_refill defaults to time.time().
NewBucket(rpm, now) ==
  [exists |-> TRUE,
   capacity |-> rpm,
   tokens |-> rpm * SecondsPerMinute,
   rate |-> rpm,
   last_refill |-> now]

\* Mutant: requests_per_minute tokens refilled per second (the / 60.0 lost).
RefillPerSecond(b, now) ==
  LET elapsed == now - b.last_refill
      new_tokens == elapsed * b.rate * SecondsPerMinute
  IN [b EXCEPT !.tokens = Min(b.capacity * SecondsPerMinute, b.tokens + new_tokens),
               !.last_refill = now]

\* Mutant: a refill that adds the elapsed tokens but leaves last_refill where
\* it was, so that the same seconds are paid out again at the next refill.
RefillKeepsStamp(b, now) ==
  LET elapsed == now - b.last_refill
      new_tokens == elapsed * b.rate
  IN [b EXCEPT !.tokens = Min(b.capacity * SecondsPerMinute, b.tokens + new_tokens)]

\* TokenBucket._refill
Refill(b, now) ==
  LET elapsed == now - b.last_refill
      new_tokens == elapsed * b.rate
  IN [b EXCEPT !.tokens = Min(b.capacity * SecondsPerMinute, b.tokens + new_tokens),
               !.last_refill = now]

\* Mutant: the decision with > in place of >=.
EnoughStrict(b, cost) == b.tokens > cost * SecondsPerMinute

\* The decision of TokenBucket.consume: self.tokens >= tokens.
Enough(b, cost) == b.tokens >= cost * SecondsPerMinute

\* Mutant: a grant that subtracts nothing.
TakeNothing(b, cost) == b

\* Mutant: the amount is subtracted whether or not the call is granted.
TakeAlways(b, cost) == [b EXCEPT !.tokens = b.tokens - cost * SecondsPerMinute]

\* The bucket after the decision: self.tokens -= tokens when granted.
Take(b, cost) ==
  IF Enough(b, cost)
    THEN [b EXCEPT !.tokens = b.tokens - cost * SecondsPerMinute]
    ELSE b

\* Mutant: a peek that takes a token.
PeekedConsuming(b, now) ==
  LET r == Refill(b, now)
  IN [r EXCEPT !.tokens = r.tokens - SecondsPerMinute]

\* The bucket after TokenBucket.peek: refilled, nothing taken.
Peeked(b, now) == Refill(b, now)

\* now + (capacity - tokens) / rate
TimeToFull(b, now) ==
  [at |-> now, num |-> b.capacity * SecondsPerMinute - b.tokens, den |-> b.rate]

\* now + (tokens_needed) / rate, tokens_needed = tokens - self.tokens
TimeToEnough(b, cost, now) ==
  [at |-> now, num |-> cost * SecondsPerMinute - b.tokens, den |-> b.rate]

\* int(reset_time - time.time()) + 1
RetryAfter(reset_time, now) ==
  TruncDiv((reset_time.at - now) * reset_time.den + reset_time.num,
           reset_time.den) + 1

\* int(remaining), int(available)
IntTokens(tokens) == TruncDiv(tokens, SecondsPerMinute)

\* ------------------------------------------------------------- state
NoCall == [op |-> "none"]
NoLoc == [kind |-> "none"]

\* Per endpoint: check_limit calls started, returned allowed, returned
\* denied, decided by consume; plain: so far every cost was 1, no reset
\* touched the bucket and the clock stood still since the first call started;
\* first: the requests_per_minute the bucket was built with; other: a later
\* call asked for another one; spent: the tokens granted since the bucket was
\* last filled (built or reset); still: no read found the clock advanced
\* while tokens granted since then were missing from the bucket; retry (kept for a single caller's calls): the last check_limit
\* was denied for `cost` tokens and returned a retry_after that ends at `at`.
NoRetry == [armed |-> FALSE, cost |-> 0, at |-> 0]
NoHist == [started |-> 0, allowed |-> 0, denied |-> 0, decided |-> 0,
           plain |-> TRUE, first |-> 0, other |-> FALSE,
           spent |-> 0, still |-> TRUE, retry |-> NoRetry]

TypeOK ==
  /\ clock \in Nat
  /\ nticks \in 0..MaxTicks
  /\ ncalls \in Nat
  /\ rlock \in Threads \cup {NoThread}
  /\ \A e \in Endpoints : block[e] \in Threads \cup {NoThread}

\* RateLimiter(): no bucket yet, both kinds of lock free, no call under way;
\* es are the endpoint identifiers the callers will use.
InitOn(es) ==
  /\ clock = 0
  /\ nticks = 0
  /\ ncalls = 0
  /\ buckets = [e \in es |-> NoBucket]
  /\ keys = <<>>
  /\ rlock = NoThread
  /\ block = [e \in es |-> NoThread]
  /\ pc = [t \in Threads |-> "idle"]
  /\ call = [t \in Threads |-> NoCall]
  /\ loc = [t \in Threads |-> NoLoc]
  /\ last = Null
  /\ created = [e \in es |-> 0]
  /\ hist = [e \in es |-> NoHist]
  /\ invoked = 0
  /\ wrapAllowed = 0

Init == InitOn(Endpoints)

\* ------------------------------------------------------ RateLimiter
\* Mutant: the lookup that never finds the endpoint.
AbsentAlways(bs, endpoint) == TRUE

\* `endpoint not in self._buckets`
Absent(bs, endpoint) == ~bs[endpoint].exists

\* Mutant: the table's entry wins over the requests_per_minute passed.
ResolveRateTableFirst(endpoint, rpm) ==
  IF endpoint \in {"mot_api", "companies_house", "tfl"} \/ ~rpm.given
    THEN DefaultLimitOf(endpoint) ELSE rpm.v

\* The requests_per_minute a new bucket is built with.
ResolveRate(endpoint, rpm) ==
  IF rpm.given THEN rpm.v ELSE DefaultLimitOf(endpoint)

\* Mutant: an existing bucket takes the capacity and rate of the latest call.
BucketForLatest(bs, endpoint, rpm, now) ==
  IF ~bs[endpoint].exists THEN NewBucket(rpm, now)
  ELSE [bs[endpoint] EXCEPT !.capacity = rpm, !.rate = rpm]

\* self._buckets[endpoint] when _get_bucket returns: a new bucket for an
\* absent endpoint, the existing one, untouched, otherwise.
BucketFor(bs, endpoint, rpm, now) ==
  IF Absent(bs, endpoint) THEN NewBucket(rpm, now) ELSE bs[endpoint]

\* Mutant: every endpoint in the registry shares the one bucket object.
UpdatedAll(bs, endpoint, b) ==
  [e \in DOMAIN bs |-> IF e = endpoint \/ bs[e].exists THEN b ELSE bs[e]]

\* self._buckets after the bucket object stored under `endpoint` was built or
\* changed in place: each key has its own TokenBucket object.
Updated(bs, endpoint, b) == [bs EXCEPT ![endpoint] = b]

\* Mutant: a lock that is not released on the way out.
ReleasedNever(locks, endpoint) == locks

\* The bucket locks after `with self.lock:` is left, by return or exception.
Released(locks, endpoint) == [locks EXCEPT ![endpoint] = NoThread]

\* `if endpoint:` in reset: None and the empty string are falsy.
Truthy(endpoint) == endpoint # NoEndpoint /\ endpoint # ""

\* Mutant: reset(endpoint) refills every bucket, whatever endpoint it is given.
ResetTargetsAll(bs, ks, endpoint) == ks

\* The buckets reset(endpoint) refills, in the order it takes their locks.
ResetTargets(bs, ks, endpoint) ==
  IF Truthy(endpoint)
    THEN IF endpoint \in DOMAIN bs /\ ~Absent(bs, endpoint)
           THEN <<endpoint>> ELSE <<>>
    ELSE ks

\* Mutant: a reset that restarts the refill clock but leaves the tokens.
ResetBucketKeepsTokens(b, now) == [b EXCEPT !.last_refill = now]

\* bucket.tokens = bucket.capacity; bucket.last_refill = time.time()
ResetBucket(b, now) ==
  [b EXCEPT !.tokens = b.capacity * SecondsPerMinute, !.last_refill = now]

\* The info dict of check_limit; Python leaves "retry_after" out when allowed.
Info(success, remaining, reset_time, capacity, now) ==
  [remaining |-> IntTokens(remaining),
   reset_time |-> reset_time,
   limit |-> capacity,
   has_retry_after |-> ~success,
   retry_after |-> IF success THEN 0 ELSE RetryAfter(reset_time, now)]

\* Mutant: the wrapper calls the wrapped function whatever check_limit returned.
CallsFuncAlways(allowed) == TRUE

\* `if not allowed: return {...}` else `result = func(*args, **kwargs)`
CallsFunc(allowed) == allowed

\* Mutant: every dict is annotated, error results included.
AnnotatesAnyDict(result) == result # "not_dict"

\* `isinstance(result, dict) and "error" not in result`
Annotates(result) == result = "dict_ok"

\* What the wrapper returns: the denial payload, or the wrapped function's
\* result, with the rate_limit block when it is annotated.
WrapperPayload(endpoint, allowed, ord, info, result) ==
  IF ~allowed
    THEN [kind |-> "wrapper",
          endpoint |-> endpoint,
          allowed |-> FALSE,
          called |-> CallsFunc(allowed),
          ord |-> ord,
          error_type |-> "rate_limit_exceeded",
          fields |-> {"error", "error_type", "retry_after", "reset_time",
                      "limit", "message"},
          retry_after |-> IF info.has_retry_after THEN info.retry_after
                          ELSE RetryAfterFallback,
          reset_time |-> info.reset_time,
          limit |-> info.limit,
          info |-> info,
          result |-> "none",
          rate_limit |-> Null]
    ELSE [kind |-> "wrapper",
          endpoint |-> endpoint,
          allowed |-> TRUE,
          called |-> CallsFunc(allowed),
          ord |-> ord,
          error_type |-> "none",
          fields |-> {},
          retry_after |-> 0,
          reset_time |-> info.reset_time,
          limit |-> info.limit,
          info |-> info,
          result |-> result,
          rate_limit |-> IF Annotates(result)
                           THEN [kind |-> "rate_limit",
                                 remaining |-> info.remaining,
                                 limit |-> info.limit,
                                 reset_time |-> info.reset_time]
                           ELSE Null]

\* An exception leaves the call: the division by a zero rate.
Raised(c) == [kind |-> "raised", error |-> "ZeroDivisionError",
              op |-> c.op, endpoint |-> c.endpoint]

\* ------------------------------------------------------------ actions
Idle(t) == pc[t] = "idle"

\* The thread that makes the next call: the first idle one.
Free(t) == Idle(t) /\ \A u \in Threads : u < t => ~Idle(u)

\* By how much a read of time.time() may find the clock advanced.
Advance == {0} \cup (IF nticks < MaxTicks THEN TickSteps ELSE {})

\* The history after a read that found the clock advanced by d: no endpoint
\* in use is plain any more, and a bucket that tokens were taken from is not
\* still.
Aged(h, d) ==
  IF d = 0 THEN h
  ELSE [e \in DOMAIN h |-> [h[e] EXCEPT !.plain = @ /\ h[e].started = 0,
                                        !.still = @ /\ h[e].spent = 0]]

\* time.time(): the clock and the count of its advances after the read.
ReadClock(d) ==
  /\ clock' = clock + d
  /\ nticks' = nticks + (IF d = 0 THEN 0 ELSE 1)

\* A thread calls limiter.check_limit(endpoint, requests_per_minute, tokens).
\* An argument's value is drawn at the step that first reads it:
\* requests_per_minute in _get_bucket, tokens in consume.
StartCheckLimit(t, e) ==
  /\ Free(t) /\ ncalls < MaxCalls
  /\ ncalls' = ncalls + 1
  /\ call' = [call EXCEPT ![t] = [op |-> "check_limit", endpoint |-> e,
                                  rpms |-> Rates(e), costs |-> Costs,
                                  wrapped |-> FALSE]]
  /\ pc' = [pc EXCEPT ![t] = "get_bucket"]
  /\ hist' = [hist EXCEPT ![e].started = @ + 1]
  /\ last' = Null
  /\ UNCHANGED <<clock, nticks, buckets, keys, rlock, block, loc, created,
                 invoked, wrapAllowed>>

\* A thread calls a function decorated with rate_limit(endpoint,
\* requests_per_minute, limiter): the wrapper checks with the default cost 1.0.
StartWrapped(t, f) ==
  /\ Free(t) /\ ncalls < MaxCalls
  /\ ncalls' = ncalls + 1
  /\ call' = [call EXCEPT ![t] = [op |-> "check_limit", endpoint |-> f.endpoint,
                                  rpms |-> {f.rpm}, costs |-> {1},
                                  wrapped |-> TRUE]]
  /\ pc' = [pc EXCEPT ![t] = "get_bucket"]
  /\ hist' = [hist EXCEPT ![f.endpoint].started = @ + 1]
  /\ last' = Null
  /\ UNCHANGED <<clock, nticks, buckets, keys, rlock, block, loc, created,
                 invoked, wrapAllowed>>

\* RateLimiter._get_bucket, under self._lock; a new bucket's last_refill is
\* time.time().  The local obj is the bucket object the caller got: the
\* how-manieth constructed for its endpoint.
GetBucket(t) ==
  /\ pc[t] = "get_bucket"
  /\ rlock = NoThread
  /\ \E r \in call[t].rpms, d \in Advance :
     LET e == call[t].endpoint
         rpm == ResolveRate(e, r)
         isNew == Absent(buckets, e)
         n == created[e] + (IF isNew THEN 1 ELSE 0)
     IN /\ isNew \/ d = 0
        /\ ReadClock(d)
        /\ buckets' = Updated(buckets, e, BucketFor(buckets, e, rpm, clock + d))
        /\ keys' = IF isNew THEN Append(keys, e) ELSE keys
        /\ created' = [created EXCEPT ![e] = n]
        /\ loc' = [loc EXCEPT ![t] = [kind |-> "bucket", obj |-> n]]
        /\ hist' = [Aged(hist, d) EXCEPT
                      ![e].first = IF created[e] = 0 THEN rpm ELSE @,
                      ![e].other = @ \/ (created[e] > 0 /\ rpm # hist[e].first),
                      ![e].still = @ \/ isNew]
  /\ pc' = [pc EXCEPT ![t] = "consume"]
  /\ last' = Null
  /\ UNCHANGED <<ncalls, rlock, block, call, invoked, wrapAllowed>>

\* TokenBucket.consume, first half: take the lock, refill, decide, subtract.
Consume(t) ==
  /\ pc[t] = "consume"
  /\ \E cost \in call[t].costs, d \in Advance :
     LET e == call[t].endpoint
         b == Refill(buckets[e], clock + d)
     IN /\ block[e] = NoThread
        /\ ReadClock(d)
        /\ block' = [block EXCEPT ![e] = t]
        /\ buckets' = Updated(buckets, e, Take(b, cost))
        /\ loc' = [loc EXCEPT ![t] = [kind |-> "consume",
                                      obj |-> loc[t].obj,
                                      cost |-> cost,
                                      success |-> Enough(b, cost),
                                      ord |-> hist[e].decided + 1]]
        /\ hist' = [Aged(hist, d) EXCEPT
                      ![e].decided = @ + 1,
                      ![e].plain = @ /\ cost = 1,
                      ![e].spent = @ + (IF Enough(b, cost) THEN cost ELSE 0)]
  /\ pc' = [pc EXCEPT ![t] = "consume_ret"]
  /\ last' = Null
  /\ UNCHANGED <<ncalls, keys, rlock, call, created, invoked, wrapAllowed>>

\* TokenBucket.consume, second half: divide by the rate, read the clock for
\* the reset timestamp, release the lock.  A zero rate raises
\* ZeroDivisionError, which leaves check_limit (and the wrapper).
ConsumeRet(t) ==
  /\ pc[t] = "consume_ret"
  /\ \E d \in Advance :
     LET e == call[t].endpoint
         b == buckets[e]
         now == clock + d
     IN /\ block' = Released(block, e)
        /\ IF b.rate = 0
             THEN /\ d = 0
                  /\ pc' = [pc EXCEPT ![t] = "idle"]
                  /\ last' = Raised(call[t])
                  /\ loc' = [loc EXCEPT ![t] = NoLoc]
                  /\ call' = [call EXCEPT ![t] = NoCall]
             ELSE /\ pc' = [pc EXCEPT ![t] = "check_ret"]
                  /\ loc' = [loc EXCEPT ![t] =
                       [kind |-> "consumed",
                        obj |-> loc[t].obj,
                        cost |-> loc[t].cost,
                        success |-> loc[t].success,
                        ord |-> loc[t].ord,
                        remaining |-> b.tokens,
                        reset_time |-> IF loc[t].success
                                         THEN TimeToFull(b, now)
                                         ELSE TimeToEnough(b, loc[t].cost, now)]]
                  /\ last' = Null
                  /\ UNCHANGED call
        /\ ReadClock(d)
        /\ hist' = Aged(hist, d)
  /\ UNCHANGED <<ncalls, buckets, keys, rlock, created, invoked, wrapAllowed>>

\* check_limit after consume: build info (a denial reads the clock again for
\* retry_after) and return.
CheckRet(t) ==
  /\ pc[t] = "check_ret" /\ ~call[t].wrapped
  /\ \E d \in Advance :
     LET e == call[t].endpoint
         info == Info(loc[t].success, loc[t].remaining, loc[t].reset_time,
                      buckets[e].capacity, clock + d)
     IN /\ loc[t].success => d = 0
        /\ ReadClock(d)
        /\ hist' = [Aged(hist, d) EXCEPT
                      ![e].allowed = @ + (IF loc[t].success THEN 1 ELSE 0),
                      ![e].denied = @ + (IF loc[t].success THEN 0 ELSE 1)]
        /\ last' = [kind |-> "check_limit",
                    endpoint |-> e,
                    cost |-> loc[t].cost,
                    allowed |-> loc[t].success,
                    ord |-> loc[t].ord,
                    info |-> info]
  /\ pc' = [pc EXCEPT ![t] = "idle"]
  /\ loc' = [loc EXCEPT ![t] = NoLoc]
  /\ call' = [call EXCEPT ![t] = NoCall]
  /\ UNCHANGED <<ncalls, buckets, keys, rlock, block, created, invoked,
                 wrapAllowed>>

\* rate_limit.decorator.wrapper: check_limit returns to the wrapper, which
\* answers a denial itself and otherwise calls the wrapped function, whose
\* result it annotates when that is a dict without "error".
WrapperRet(t) ==
  /\ pc[t] = "check_ret" /\ call[t].wrapped
  /\ \E d \in Advance, result \in FuncResults :
     LET e == call[t].endpoint
         info == Info(loc[t].success, loc[t].remaining, loc[t].reset_time,
                      buckets[e].capacity, clock + d)
     IN /\ loc[t].success => d = 0
        /\ CallsFunc(loc[t].success) \/ result = "dict_ok"
        /\ ReadClock(d)
        /\ hist' = [Aged(hist, d) EXCEPT
                      ![e].allowed = @ + (IF loc[t].success THEN 1 ELSE 0),
                      ![e].denied = @ + (IF loc[t].success THEN 0 ELSE 1)]
        /\ wrapAllowed' = wrapAllowed + (IF loc[t].success THEN 1 ELSE 0)
        /\ invoked' = invoked + (IF CallsFunc(loc[t].success) THEN 1 ELSE 0)
        /\ last' = WrapperPayload(e, loc[t].success, loc[t].ord, info, result)
  /\ pc' = [pc EXCEPT ![t] = "idle"]
  /\ loc' = [loc EXCEPT ![t] = NoLoc]
  /\ call' = [call EXCEPT ![t] = NoCall]
  /\ UNCHANGED <<ncalls, buckets, keys, rlock, block, created>>

\* A thread calls limiter.get_status(endpoint).
StartGetStatus(t, e) ==
  /\ Free(t) /\ ncalls < MaxCalls
  /\ ncalls' = ncalls + 1
  /\ call' = [call EXCEPT ![t] = [op |-> "get_status", endpoint |-> e]]
  /\ pc' = [pc EXCEPT ![t] = "status"]
  /\ last' = Null
  /\ UNCHANGED <<clock, nticks, buckets, keys, rlock, block, loc, created,
                 hist, invoked, wrapAllowed>>

\* get_status under self._lock: an endpoint without a bucket gets its default
\* (and datetime.now() as its reset time).
GetStatus(t) ==
  /\ pc[t] = "status"
  /\ rlock = NoThread
  /\ \E d \in Advance :
     LET e == call[t].endpoint
     IN /\ ReadClock(d)
        /\ hist' = Aged(hist, d)
        /\ IF Absent(buckets, e)
             THEN /\ last' = [kind |-> "status",
                              endpoint |-> e,
                              existed |-> FALSE,
                              available |-> DefaultLimitOf(e),
                              limit |-> DefaultLimitOf(e),
                              reset_time |-> [at |-> clock + d, num |-> 0,
                                              den |-> 1]]
                  /\ pc' = [pc EXCEPT ![t] = "idle"]
                  /\ call' = [call EXCEPT ![t] = NoCall]
                  /\ UNCHANGED loc
             ELSE /\ d = 0
                  /\ pc' = [pc EXCEPT ![t] = "peek"]
                  /\ loc' = [loc EXCEPT ![t] = [kind |-> "bucket",
                                                obj |-> created[e]]]
                  /\ last' = Null
                  /\ UNCHANGED call
  /\ UNCHANGED <<ncalls, buckets, keys, rlock, block, created, invoked,
                 wrapAllowed>>

\* TokenBucket.peek, first half: take the lock and refill.
Peek(t) ==
  /\ pc[t] = "peek"
  /\ \E d \in Advance :
     LET e == call[t].endpoint
     IN /\ block[e] = NoThread
        /\ ReadClock(d)
        /\ hist' = Aged(hist, d)
        /\ block' = [block EXCEPT ![e] = t]
        /\ buckets' = Updated(buckets, e, Peeked(buckets[e], clock + d))
  /\ pc' = [pc EXCEPT ![t] = "peek_ret"]
  /\ last' = Null
  /\ UNCHANGED <<ncalls, keys, rlock, call, loc, created, invoked,
                 wrapAllowed>>

\* TokenBucket.peek, second half (a zero rate raises ZeroDivisionError), and
\* get_status's return.
PeekRet(t) ==
  /\ pc[t] = "peek_ret"
  /\ \E d \in Advance :
     LET e == call[t].endpoint
         b == buckets[e]
     IN /\ b.rate = 0 => d = 0
        /\ ReadClock(d)
        /\ hist' = Aged(hist, d)
        /\ block' = Released(block, e)
        /\ last' = IF b.rate = 0 THEN Raised(call[t])
                   ELSE [kind |-> "status",
                         endpoint |-> e,
                         existed |-> TRUE,
                         available |-> IntTokens(b.tokens),
                         limit |-> b.capacity,
                         reset_time |-> TimeToFull(b, clock + d)]
  /\ pc' = [pc EXCEPT ![t] = "idle"]
  /\ loc' = [loc EXCEPT ![t] = NoLoc]
  /\ call' = [call EXCEPT ![t] = NoCall]
  /\ UNCHANGED <<ncalls, buckets, keys, rlock, created, invoked, wrapAllowed>>

\* A thread calls limiter.reset(endpoint) or limiter.reset().
StartReset(t, e) ==
  /\ Free(t) /\ ncalls < MaxCalls
  /\ ncalls' = ncalls + 1
  /\ call' = [call EXCEPT ![t] = [op |-> "reset", endpoint |-> e]]
  /\ pc' = [pc EXCEPT ![t] = "reset"]
  /\ last' = Null
  /\ UNCHANGED <<clock, nticks, buckets, keys, rlock, block, loc, created,
                 hist, invoked, wrapAllowed>>

\* reset takes self._lock and holds it while it refills its buckets.
Reset(t) ==
  /\ pc[t] = "reset"
  /\ rlock = NoThread
  /\ LET todo == ResetTargets(buckets, keys, call[t].endpoint)
     IN IF todo = <<>>
          THEN /\ pc' = [pc EXCEPT ![t] = "idle"]
               /\ last' = [kind |-> "reset", endpoint |-> call[t].endpoint]
               /\ call' = [call EXCEPT ![t] = NoCall]
               /\ UNCHANGED <<rlock, loc>>
          ELSE /\ rlock' = t
               /\ pc' = [pc EXCEPT ![t] = "reset_one"]
               /\ loc' = [loc EXCEPT ![t] = [kind |-> "reset", todo |-> todo]]
               /\ last' = Null
               /\ UNCHANGED call
  /\ UNCHANGED <<clock, nticks, ncalls, buckets, keys, block, created, hist,
                 invoked, wrapAllowed>>

\* reset refills its next bucket under that bucket's lock; after the last one
\* it releases self._lock and returns.
ResetOne(t) ==
  /\ pc[t] = "reset_one"
  /\ \E d \in Advance :
     LET e == Head(loc[t].todo)
         rest == Tail(loc[t].todo)
     IN /\ block[e] = NoThread
        /\ ReadClock(d)
        /\ buckets' = Updated(buckets, e, ResetBucket(buckets[e], clock + d))
        /\ hist' = [Aged(hist, d) EXCEPT ![e].plain = FALSE,
                                         ![e].spent = 0,
                                         ![e].still = TRUE]
        /\ IF rest = <<>>
             THEN /\ rlock' = NoThread
                  /\ pc' = [pc EXCEPT ![t] = "idle"]
                  /\ last' = [kind |-> "reset", endpoint |-> call[t].endpoint]
                  /\ loc' = [loc EXCEPT ![t] = NoLoc]
                  /\ call' = [call EXCEPT ![t] = NoCall]
             ELSE /\ loc' = [loc EXCEPT ![t].todo = rest]
                  /\ last' = Null
                  /\ UNCHANGED <<rlock, pc, call>>
  /\ UNCHANGED <<ncalls, keys, block, created, invoked, wrapAllowed>>

Next ==
  \/ \E t \in Threads, e \in Endpoints : StartCheckLimit(t, e)
  \/ \E t \in Threads, f \in Decorated : StartWrapped(t, f)
  \/ \E t \in Threads, e \in Endpoints : StartGetStatus(t, e)
  \/ \E t \in Threads, e \in Endpoints \cup {NoEndpoint} : StartReset(t, e)
  \/ \E t \in Threads : GetBucket(t)
  \/ \E t \in Threads : Consume(t)
  \/ \E t \in Threads : ConsumeRet(t)
  \/ \E t \in Threads : CheckRet(t)
  \/ \E t \in Threads : WrapperRet(t)
  \/ \E t \in Threads : GetStatus(t)
  \/ \E t \in Threads : Peek(t)
  \/ \E t \in Threads : PeekRet(t)
  \/ \E t \in Threads : Reset(t)
  \/ \E t \in Threads : ResetOne(t)

Spec == Init /\ [][Next]_vars

\* A thread's next step inside its call.
Step(t) ==
  \/ GetBucket(t)
  \/ Consume(t)
  \/ ConsumeRet(t)
  \/ CheckRet(t)
  \/ WrapperRet(t)
  \/ GetStatus(t)
  \/ Peek(t)
  \/ PeekRet(t)
  \/ Reset(t)
  \/ ResetOne(t)

\* The scheduler runs every thread that can run: a thread whose next step
\* stays possible takes it.
FairSpec == Spec /\ \A t \in Threads : WF_vars(Step(t))

\* ------------------------------------------- a limiter in use
\* The limiter some time into the process's life: every endpoint has been
\* used once (the unlisted one with requests_per_minute=2) and reset() has
\* refilled the buckets; no call is under way.  From there the threads make
\* their calls as in Spec.
UsedLimits == [e \in Endpoints |-> ResolveRate(e, IF e = "tfl" THEN NoRate ELSE Rate(2))]

UsedInit ==
  /\ clock = 0
  /\ nticks = 0
  /\ ncalls = 0
  /\ buckets = [e \in Endpoints |->
                  ResetBucket(Take(NewBucket(UsedLimits[e], 0), 1), 0)]
  /\ keys = <<"tfl", "x">>
  /\ rlock = NoThread
  /\ block = [e \in Endpoints |-> NoThread]
  /\ pc = [t \in Threads |-> "idle"]
  /\ call = [t \in Threads |-> NoCall]
  /\ loc = [t \in Threads |-> NoLoc]
  /\ last = Null
  /\ created = [e \in Endpoints |-> 1]
  /\ hist = [e \in Endpoints |->
               [NoHist EXCEPT !.started = 1, !.allowed = 1, !.decided = 1,
                              !.plain = FALSE, !.first = UsedLimits[e]]]
  /\ invoked = 0
  /\ wrapAllowed = 0

UsedSpec == UsedInit /\ [][Next]_vars

\* ------------------------------------------------ a single caller
\* One caller makes its calls one after the other, so each call runs from its
\* first line to its return with no other thread in between, and time passes
\* between the calls, where the caller sleeps.  The locks are free before and
\* after every call.
threadvars == <<rlock, block, pc, call, loc, invoked, wrapAllowed>>

\* The requests_per_minute and the costs the single caller passes, and the
\* seconds it sleeps between calls.
SeqRates(endpoint) ==
  IF endpoint = "tfl" THEN {NoRate} ELSE {Rate(1), Rate(2), Rate(0)}
SeqCosts == {1, 2}
SeqSleeps == {45, 90}

\* Elements of a sequence.
Range(seq) == {seq[i] : i \in DOMAIN seq}

\* limiter.check_limit(endpoint, requests_per_minute, tokens), from call to
\* return, as the max-th call at most.
CheckLimitCall(e, r, cost, max) ==
  LET rpm == ResolveRate(e, r)
      isNew == Absent(buckets, e)
      b0 == BucketFor(buckets, e, rpm, clock)
      b1 == Refill(b0, clock)
      ok == Enough(b1, cost)
      b2 == Take(b1, cost)
      due == /\ hist[e].retry.armed
             /\ hist[e].retry.cost = cost
             /\ clock >= hist[e].retry.at
      h == [hist EXCEPT
              ![e].started = @ + 1,
              ![e].decided = @ + 1,
              ![e].plain = @ /\ cost = 1,
              ![e].first = IF isNew THEN rpm ELSE @,
              ![e].other = @ \/ (~isNew /\ rpm # hist[e].first),
              ![e].spent = @ + (IF ok THEN cost ELSE 0),
              ![e].still = @ \/ isNew]
  IN /\ ncalls < max
     /\ ncalls' = ncalls + 1
     /\ buckets' = Updated(buckets, e, b2)
     /\ keys' = IF isNew THEN Append(keys, e) ELSE keys
     /\ created' = [created EXCEPT ![e] = @ + (IF isNew THEN 1 ELSE 0)]
     /\ IF b2.rate = 0
          THEN /\ last' = Raised([op |-> "check_limit", endpoint |-> e])
               /\ hist' = h
          ELSE LET reset_time == IF ok THEN TimeToFull(b2, clock)
                                 ELSE TimeToEnough(b2, cost, clock)
                   info == Info(ok, b2.tokens, reset_time, b2.capacity, clock)
               IN /\ last' = [kind |-> "check_limit",
                              endpoint |-> e,
                              cost |-> cost,
                              allowed |-> ok,
                              ord |-> hist[e].decided + 1,
                              info |-> info,
                              due |-> due]
                  /\ hist' = [h EXCEPT
                       ![e].allowed = @ + (IF ok THEN 1 ELSE 0),
                       ![e].denied = @ + (IF ok THEN 0 ELSE 1),
                       ![e].retry = IF ok THEN NoRetry
                                    ELSE [armed |-> TRUE, cost |-> cost,
                                          at |-> clock + info.retry_after]]
     /\ UNCHANGED <<clock, nticks>>
     /\ UNCHANGED threadvars

\* limiter.get_status(endpoint), from call to return.
GetStatusCall(e, max) ==
  LET b == Peeked(buckets[e], clock)
  IN /\ ncalls < max
     /\ ncalls' = ncalls + 1
     /\ IF Absent(buckets, e)
          THEN /\ last' = [kind |-> "status",
                           endpoint |-> e,
                           existed |-> FALSE,
                           available |-> DefaultLimitOf(e),
                           limit |-> DefaultLimitOf(e),
                           reset_time |-> [at |-> clock, num |-> 0, den |-> 1]]
               /\ UNCHANGED buckets
          ELSE /\ buckets' = Updated(buckets, e, b)
               /\ last' = IF b.rate = 0
                            THEN Raised([op |-> "get_status", endpoint |-> e])
                            ELSE [kind |-> "status",
                                  endpoint |-> e,
                                  existed |-> TRUE,
                                  available |-> IntTokens(b.tokens),
                                  limit |-> b.capacity,
                                  reset_time |-> TimeToFull(b, clock)]
     /\ UNCHANGED <<clock, nticks, keys, created, hist>>
     /\ UNCHANGED threadvars

\* limiter.reset(endpoint) or limiter.reset(), from call to return.
ResetCall(e, max) ==
  LET todo == Range(ResetTargets(buckets, keys, e))
  IN /\ ncalls < max
     /\ ncalls' = ncalls + 1
     /\ buckets' = [x \in DOMAIN buckets |->
                      IF x \in todo THEN ResetBucket(buckets[x], clock)
                      ELSE buckets[x]]
     /\ hist' = [x \in DOMAIN hist |->
                   IF x \in todo
                     THEN [hist[x] EXCEPT !.plain = FALSE, !.spent = 0,
                                          !.still = TRUE, !.retry = NoRetry]
                     ELSE hist[x]]
     /\ last' = [kind |-> "reset", endpoint |-> e, todo |-> todo,
                 before |-> buckets, had |-> created]
     /\ UNCHANGED <<clock, nticks, keys, created>>
     /\ UNCHANGED threadvars

\* time.sleep(d) between two calls.
Sleep(d) ==
  /\ nticks < MaxTicks
  /\ d > 0
  /\ clock' = clock + d
  /\ nticks' = nticks + 1
  /\ hist' = Aged(hist, d)
  /\ last' = Null
  /\ UNCHANGED <<ncalls, buckets, keys, created>>
  /\ UNCHANGED threadvars

SeqNext ==
  \/ \E e \in Endpoints, cost \in SeqCosts :
       \E r \in SeqRates(e) : CheckLimitCall(e, r, cost, MaxSeqCalls)
  \/ \E e \in Endpoints : GetStatusCall(e, MaxSeqCalls)
  \/ \E e \in Endpoints \cup {NoEndpoint} : ResetCall(e, MaxSeqCalls)
  \/ \E d \in SeqSleeps : Sleep(d)

SeqSpec == Init /\ [][SeqNext]_vars

\* ------------------------------------------------- burst and refill
\* The caller of the burst and refill scenarios of the tests: it calls
\* check_limit(endpoint, requests_per_minute=60) or (..., 10), always with the
\* same limit and with cost 1, up to MaxBurstCalls times, and sleeps when it
\* has been denied.
BurstEndpoint == "x"
BurstRates == {Rate(60), Rate(10)}
BurstSleeps == {1, 6}

BurstCheckLimit(r) ==
  /\ Absent(buckets, BurstEndpoint) \/ r.v = hist[BurstEndpoint].first
  /\ CheckLimitCall(BurstEndpoint, r, 1, MaxBurstCalls)

BurstSleep(d) ==
  /\ last.kind = "check_limit" /\ ~last.allowed
  /\ Sleep(d)

BurstNext ==
  \/ \E r \in BurstRates : BurstCheckLimit(r)
  \/ \E d \in BurstSleeps : BurstSleep(d)

BurstSpec == Init /\ [][BurstNext]_vars



\* ------------------------------------------- the global limiter
\* _global_limiter, as the convenience functions and get_limiter().reset use
\* it: a single caller, every call from its first line to its return.
\* The endpoint identifiers of its callers: the three of the default table,
\* one without an entry, the empty string.
LimiterEndpoints == {"mot_api", "companies_house", "tfl", "x", ""}

GlobalInit == InitOn(LimiterEndpoints)

\* check_mot_limit()
CheckMotLimit ==
  CheckLimitCall("mot_api", Rate(MotConvenienceLimit), 1, MaxGlobalCalls)

\* check_companies_house_limit()
CheckCompaniesHouseLimit ==
  CheckLimitCall("companies_house", Rate(CompaniesHouseConvenienceLimit), 1,
                 MaxGlobalCalls)

\* check_tfl_limit()
CheckTflLimit ==
  CheckLimitCall("tfl", Rate(TflConvenienceLimit), 1, MaxGlobalCalls)

\* check_default_limit(endpoint)
CheckDefaultLimit(endpoint) ==
  CheckLimitCall(endpoint, Rate(DefaultConvenienceLimit), 1, MaxGlobalCalls)

\* get_limiter().reset(endpoint), get_limiter().reset()
GlobalReset(endpoint) == ResetCall(endpoint, MaxGlobalCalls)

GlobalNext ==
  \/ CheckMotLimit
  \/ CheckCompaniesHouseLimit
  \/ CheckTflLimit
  \/ \E e \in LimiterEndpoints : CheckDefaultLimit(e)
  \/ \E e \in LimiterEndpoints \cup {NoEndpoint} : GlobalReset(e)
  \/ \E d \in SeqSleeps : Sleep(d)

GlobalSpec == GlobalInit /\ [][GlobalNext]_vars

\* ------------------------------------------- one TokenBucket
\* A TokenBucket constructed directly, TokenBucket(capacity=c, tokens=k,
\* rate=r) as tests/test_rate_limiter.py does, and used by a single caller
\* through consume(amount) and peek().  The wall clock time.time() goes
\* forward between the calls and may also be set back.
\* buckets holds the one bucket under the key TheBucket.  hist is the record
\*   since   the bucket as the last consume (or the constructor) left it,
\*   mono    the clock was not set back since then,
\*   peeked  what the previous call returned and when, when it was a peek,
\*   denied  what the previous call returned and when, when it was a denied
\*           consume.
TheBucket == "bucket"
BucketCapacities == {1, 2}
\* rate, in tokens per minute
BucketRates == {1, 2}
\* the amounts consume is called with
BucketAmounts == {1, 2, 0, -1}
\* time.time() at construction, and the seconds by which it changes
BucketEpochs == {90}
BucketTicks == {45, -45}

NoReturn == [valid |-> FALSE, tokens |-> 0, at |-> 0]
Returned(tokens, now) == [valid |-> TRUE, tokens |-> tokens, at |-> now]

BucketInit ==
  /\ clock \in BucketEpochs
  /\ nticks = 0
  /\ ncalls = 0
  /\ \E c \in BucketCapacities : \E r \in BucketRates, k \in 0..c :
       buckets = [e \in {TheBucket} |->
                    [exists |-> TRUE,
                     capacity |-> c,
                     tokens |-> k * SecondsPerMinute,
                     rate |-> r,
                     last_refill |-> clock]]
  /\ keys = <<>>
  /\ rlock = NoThread
  /\ block = [e \in {TheBucket} |-> NoThread]
  /\ pc = [t \in Threads |-> "idle"]
  /\ call = [t \in Threads |-> NoCall]
  /\ loc = [t \in Threads |-> NoLoc]
  /\ last = Null
  /\ created = [e \in {TheBucket} |-> 1]
  /\ hist = [since |-> buckets[TheBucket], mono |-> TRUE,
             peeked |-> NoReturn, denied |-> NoReturn]
  /\ invoked = 0
  /\ wrapAllowed = 0

\* bucket.consume(amount), from call to return.
BucketConsume(amount) ==
  LET b0 == buckets[TheBucket]
      b1 == Refill(b0, clock)
      ok == Enough(b1, amount)
      b2 == Take(b1, amount)
  IN /\ ncalls < MaxBucketCalls
     /\ ncalls' = ncalls + 1
     /\ buckets' = Updated(buckets, TheBucket, b2)
     /\ last' = [kind |-> "consume",
                 amount |-> amount,
                 now |-> clock,
                 before |-> b0,
                 refilled |-> b1,
                 success |-> ok,
                 remaining |-> b2.tokens,
                 reset_time |-> IF ok THEN TimeToFull(b2, clock)
                                ELSE TimeToEnough(b2, amount, clock),
                 prev |-> hist.denied]
     /\ hist' = [since |-> b2, mono |-> TRUE, peeked |-> NoReturn,
                 denied |-> IF ok THEN NoReturn ELSE Returned(b2.tokens, clock)]
     /\ UNCHANGED <<clock, nticks, keys, created>>
     /\ UNCHANGED threadvars

\* bucket.peek(), from call to return.
BucketPeek ==
  LET b0 == buckets[TheBucket]
      b1 == Peeked(b0, clock)
  IN /\ ncalls < MaxBucketCalls
     /\ ncalls' = ncalls + 1
     /\ buckets' = Updated(buckets, TheBucket, b1)
     /\ last' = [kind |-> "peek",
                 now |-> clock,
                 before |-> b0,
                 refilled |-> b1,
                 available |-> b1.tokens,
                 reset_time |-> TimeToFull(b1, clock),
                 prev |-> hist.peeked]
     /\ hist' = [hist EXCEPT !.peeked = Returned(b1.tokens, clock),
                             !.denied = NoReturn]
     /\ UNCHANGED <<clock, nticks, keys, created>>
     /\ UNCHANGED threadvars

\* Between two calls the clock moves by d seconds: time passing, or the wall
\* clock being set back.
BucketTick(d) ==
  /\ nticks < MaxBucketTicks
  /\ clock + d >= 0
  /\ clock' = clock + d
  /\ nticks' = nticks + 1
  /\ hist' = [hist EXCEPT !.mono = @ /\ d > 0]
  /\ last' = Null
  /\ UNCHANGED <<ncalls, buckets, keys, created>>
  /\ UNCHANGED threadvars

BucketNext ==
  \/ \E amount \in BucketAmounts : BucketConsume(amount)
  \/ BucketPeek
  \/ \E d \in BucketTicks : BucketTick(d)

BucketSpec == BucketInit /\ [][BucketNext]_vars

\* ------------------------------------------- the registry
\* A limiter whose single caller uses every kind of endpoint identifier (the
\* table's three, one without an entry, the empty string), passing
\* requests_per_minute or leaving it out.  _get_bucket is also taken on its
\* own, so that the bucket it returns is seen before consume touches it.
RegistryRates == {NoRate, Rate(2)}

RegistryInit == InitOn(LimiterEndpoints)

\* limiter._get_bucket(endpoint, requests_per_minute), from call to return.
GetBucketCall(e, r, max) ==
  LET rpm == ResolveRate(e, r)
      isNew == Absent(buckets, e)
      b == BucketFor(buckets, e, rpm, clock)
  IN /\ ncalls < max
     /\ ncalls' = ncalls + 1
     /\ buckets' = Updated(buckets, e, b)
     /\ keys' = IF isNew THEN Append(keys, e) ELSE keys
     /\ created' = [created EXCEPT ![e] = @ + (IF isNew THEN 1 ELSE 0)]
     /\ hist' = [hist EXCEPT
                   ![e].first = IF isNew THEN rpm ELSE @,
                   ![e].other = @ \/ (~isNew /\ rpm # hist[e].first),
                   ![e].still = @ \/ isNew]
     /\ last' = [kind |-> "bucket",
                 endpoint |-> e,
                 requests_per_minute |-> r,
                 isNew |-> isNew,
                 bucket |-> b]
     /\ UNCHANGED <<clock, nticks>>
     /\ UNCHANGED threadvars

RegistryNext ==
  \/ \E e \in LimiterEndpoints, r \in RegistryRates :
       GetBucketCall(e, r, MaxRegistryCalls)
  \/ \E e \in LimiterEndpoints, r \in RegistryRates :
       CheckLimitCall(e, r, 1, MaxRegistryCalls)
  \/ \E e \in LimiterEndpoints \cup {NoEndpoint} :
       ResetCall(e, MaxRegistryCalls)
  \/ \E d \in TickSteps : Sleep(d)

RegistrySpec == RegistryInit /\ [][RegistryNext]_vars

\* ------------------------------------------------------------- claims
\* A check_limit that returned (directly or to the wrapper).
Checked == last.kind \in {"check_limit", "wrapper"}

\* The bucket of endpoint e was built with a proper limit.
Proper(e) == buckets[e].exists /\ buckets[e].capacity >= 1

\* Every check_limit call started on e has returned allowed or denied.
AllReturned(e) == hist[e].allowed + hist[e].denied = hist[e].started

\* C1: when exactly C calls consume one token each from a full bucket of
\* capacity C while the clock stands still, then however their steps
\* interleave, once all have returned all C were granted, none was denied and
\* the bucket holds 0 tokens.
C1_AllGrantedToZero ==
  \A e \in Endpoints :
    (/\ buckets[e].exists
     /\ hist[e].plain
     /\ hist[e].started = buckets[e].capacity
     /\ AllReturned(e))
    => (/\ hist[e].allowed = buckets[e].capacity
        /\ hist[e].denied = 0
        /\ buckets[e].tokens = 0)

\* Two overlapping calls emptied a bucket of capacity 2: the call that
\* consumed first returned last.
C1_Witness ==
  /\ last.kind = "check_limit" /\ last.ord = 1
  /\ buckets[last.endpoint].exists
  /\ buckets[last.endpoint].capacity = 2
  /\ hist[last.endpoint].plain
  /\ hist[last.endpoint].started = 2
  /\ hist[last.endpoint].allowed = 2

\* C2: when N > L cost-1 calls are made on a fresh endpoint with limit L (a
\* proper limit, L >= 1) while the clock stands still, then however their
\* steps interleave, the race to create the bucket included, once all have
\* returned exactly L were allowed and N - L denied.
C2_ExactlyLimitAllowed ==
  \A e \in Endpoints :
    (/\ Proper(e)
     /\ hist[e].plain
     /\ hist[e].started > buckets[e].capacity
     /\ AllReturned(e))
    => (/\ hist[e].allowed = buckets[e].capacity
        /\ hist[e].denied = hist[e].started - buckets[e].capacity)

\* Two overlapping calls on a fresh endpoint of limit 1: one allowed, one
\* denied, and the call that consumed first returned last.
C2_Witness ==
  /\ Checked /\ last.ord = 1
  /\ Proper(last.endpoint)
  /\ buckets[last.endpoint].capacity = 1
  /\ hist[last.endpoint].plain
  /\ hist[last.endpoint].started = 2
  /\ hist[last.endpoint].allowed = 1
  /\ hist[last.endpoint].denied = 1

\* C3: every bucket holds 0 <= tokens <= capacity in every reachable state
\* (costs >= 0, clock never going back).
C3_TokensWithinCapacity ==
  \A e \in Endpoints :
    buckets[e].exists =>
      /\ 0 <= buckets[e].tokens
      /\ buckets[e].tokens <= buckets[e].capacity * SecondsPerMinute

\* The same bound for the buckets built with a limit >= 0.
TokensWithinCapacityOfProper ==
  \A e \in Endpoints :
    (buckets[e].exists /\ buckets[e].capacity >= 0) =>
      /\ 0 <= buckets[e].tokens
      /\ buckets[e].tokens <= buckets[e].capacity * SecondsPerMinute

\* A thread holds a reference to the bucket of its call's endpoint.
HoldsBucket(t) ==
  pc[t] \in {"consume", "consume_ret", "check_ret", "peek", "peek_ret"}

\* C4: at most one TokenBucket is ever constructed per endpoint, and every
\* thread working on an endpoint holds that one bucket.
C4_OneBucketPerEndpoint ==
  /\ \A e \in Endpoints :
       /\ created[e] <= 1
       /\ buckets[e].exists <=> created[e] = 1
  /\ \A t \in Threads :
       HoldsBucket(t) => loc[t].obj = 1 /\ created[call[t].endpoint] = 1

\* Two threads raced through _get_bucket for the same fresh endpoint and both
\* are about to consume from its bucket.
C4_Witness ==
  /\ pc[1] = "consume" /\ pc[2] = "consume"
  /\ call[1].endpoint = call[2].endpoint
  /\ created[call[1].endpoint] = 1
  /\ hist[call[1].endpoint].decided = 0

\* C5: first writer wins: a bucket keeps the capacity and rate its first
\* call built it with, whatever requests_per_minute later calls pass, and
\* every check_limit and get_status on it reports that limit.
C5_FirstWriterWins ==
  /\ \A e \in Endpoints :
       buckets[e].exists =>
         /\ buckets[e].capacity = hist[e].first
         /\ buckets[e].rate = hist[e].first
  /\ Checked => last.info.limit = hist[last.endpoint].first
  /\ (last.kind = "status" /\ last.existed) =>
       last.limit = hist[last.endpoint].first

\* A check_limit returned on a bucket that a later call had asked to build
\* with another requests_per_minute.
C5_Witness ==
  /\ last.kind = "check_limit"
  /\ hist[last.endpoint].other
  /\ hist[last.endpoint].first = 1
  /\ last.info.limit = 1

\* C6: a denied check makes the wrapper return the rate_limit_exceeded
\* payload with retry_after, reset_time, limit and message, without calling
\* the wrapped function; the wrapped function has been called exactly as
\* often as a wrapper's check was allowed.
C6_DenialSkipsCall ==
  /\ invoked = wrapAllowed
  /\ last.kind = "wrapper" =>
       /\ last.called = last.allowed
       /\ ~last.allowed =>
            /\ last.error_type = "rate_limit_exceeded"
            /\ {"retry_after", "reset_time", "limit", "message"}
                 \subseteq last.fields
            /\ last.info.has_retry_after

\* The wrapper returned a denial after an earlier call went through.
C6_Witness ==
  /\ last.kind = "wrapper" /\ ~last.allowed
  /\ ~last.called
  /\ invoked = 1 /\ wrapAllowed = 1

\* C7: every denied check_limit returns retry_after >= 1, whatever the cost,
\* the bucket's state and the time that passed between consume and the later
\* clock read.  Stated here for the buckets built with a proper limit.
C7_RetryAfterAtLeastOne ==
  (Checked /\ ~last.allowed /\ Proper(last.endpoint))
    => last.info.retry_after >= 1

\* C8: a first check_limit with requests_per_minute <= 0 is rejected before
\* a bucket is created: the registry never holds a bucket built with a
\* limit <= 0.
C8_NoBucketForBadRate ==
  \A e \in Endpoints : buckets[e].exists => buckets[e].capacity > 0

\* C9: check_limit never raises: every call returns its (allowed, info) pair.
C9_CheckLimitNeverRaises ==
  last.kind = "raised" => last.op # "check_limit"

\* C10: exact depletion: on a fresh endpoint of limit L >= 1, with cost 1 and
\* the clock standing still, the k-th call is allowed with remaining L - k
\* for k <= L, and the (L+1)-th is denied with remaining 0 and a retry_after.
C10_ExactDepletion ==
  (Checked /\ Proper(last.endpoint) /\ hist[last.endpoint].plain) =>
    LET L == buckets[last.endpoint].capacity
        k == last.ord
    IN /\ k <= L => last.allowed /\ last.info.remaining = L - k
                    /\ ~last.info.has_retry_after
       /\ k > L => ~last.allowed /\ last.info.remaining = 0
                   /\ last.info.has_retry_after

\* The (L+1)-th call on a fresh endpoint was denied with remaining 0.
C10_Witness ==
  /\ last.kind = "check_limit" /\ ~last.allowed
  /\ Proper(last.endpoint)
  /\ hist[last.endpoint].plain
  /\ last.ord = buckets[last.endpoint].capacity + 1
  /\ hist[last.endpoint].allowed = buckets[last.endpoint].capacity
  /\ last.info.remaining = 0
  /\ last.info.has_retry_after

\* The thread t took the step.
Stepped(t) == pc'[t] # pc[t] \/ loc'[t] # loc[t] \/ call'[t] # call[t]

\* C11: endpoint isolation: no step of a check_limit call on endpoint A
\* changes the bucket of another endpoint (its tokens, capacity, rate), so
\* whatever is done to A, exhausting it included, B's next outcome is that of
\* an unused A.
C11_EndpointIsolation ==
  [][\A t \in Threads, e \in Endpoints :
       (Stepped(t) /\ call[t].op = "check_limit" /\ call[t].endpoint # e)
         => buckets'[e] = buckets[e]]_vars

\* A check_limit has just exhausted endpoint "x" while the bucket of "tfl",
\* used once before, still holds all its tokens but that one.
C11_Witness ==
  /\ last.kind = "check_limit" /\ last.endpoint = "x" /\ last.allowed
  /\ buckets["x"].tokens = 0
  /\ buckets["tfl"].exists
  /\ hist["tfl"].allowed = 1
  /\ buckets["tfl"].tokens = (TflLimit - 1) * SecondsPerMinute

\* C12: after partial consumption of endpoint E, reset(E) makes
\* get_status(E) report available == limit; reset(E) leaves every other
\* endpoint's bucket as it was; and reset(E) for an endpoint without a bucket
\* changes nothing and creates no bucket.
C12_ResetOneEndpoint ==
  /\ (last.kind = "reset" /\ Truthy(last.endpoint)) =>
       /\ \A x \in Endpoints \ {last.endpoint} : buckets[x] = last.before[x]
       /\ last.before[last.endpoint].exists =>
            buckets[last.endpoint].tokens =
              buckets[last.endpoint].capacity * SecondsPerMinute
       /\ ~last.before[last.endpoint].exists =>
            buckets = last.before /\ created = last.had
  /\ \A e \in Endpoints :
       (/\ last.kind \in {"status", "raised"}
        /\ last.endpoint = e
        /\ hist[e].allowed >= 1
        /\ hist[e].spent = 0)
       => /\ last.kind = "status"
          /\ last.available = last.limit
          /\ last.limit = buckets[e].capacity

\* get_status(E) reported a full bucket after E had been consumed from and
\* reset, while the other endpoint's bucket still lacks what was taken from it.
C12_Witness ==
  /\ last.kind = "status" /\ last.existed
  /\ hist[last.endpoint].allowed >= 1
  /\ hist[last.endpoint].spent = 0
  /\ last.available = last.limit
  /\ \E x \in Endpoints \ {last.endpoint} :
       /\ buckets[x].exists
       /\ hist[x].spent >= 1
       /\ buckets[x].tokens < buckets[x].capacity * SecondsPerMinute

ConfiguredDefault(e) == IF e = "tfl" THEN TflLimit ELSE DefaultLimit

\* C14: get_status(E) for an endpoint without a bucket returns E's configured
\* default limit (table entry, else the fallback 60) as both available and
\* limit, and is read-only: it creates no bucket and changes no existing one.
C14_StatusOfUnusedEndpoint ==
  /\ []((last.kind = "status" /\ ~last.existed) =>
          /\ last.available = ConfiguredDefault(last.endpoint)
          /\ last.limit = ConfiguredDefault(last.endpoint)
          /\ ~buckets[last.endpoint].exists
          /\ created[last.endpoint] = 0)
  /\ [][\A t \in Threads :
          (/\ Stepped(t)
           /\ call[t].op = "get_status"
           /\ ~buckets[call[t].endpoint].exists)
          => /\ buckets' = buckets
             /\ keys' = keys
             /\ created' = created]_vars

\* get_status("tfl") returned the table's 500 for the unused endpoint while
\* the bucket of "x", consumed from before, still exists.
C14_Witness ==
  /\ last.kind = "status" /\ ~last.existed
  /\ last.endpoint = "tfl"
  /\ last.available = TflLimit
  /\ buckets["x"].exists
  /\ hist["x"].allowed = 1

\* C15: get_status consumes nothing: while the clock stands still, after k
\* tokens were granted on an endpoint of limit L >= 1 since its bucket was
\* built or last reset (k allowed cost-1 calls), get_status reports
\* available == L - k and limit == L, however many get_status calls came in
\* between and whatever was done to the other endpoints.
C15_StatusCountsGrants ==
  (/\ last.kind = "status" /\ last.existed
   /\ Proper(last.endpoint)
   /\ hist[last.endpoint].still)
  => /\ last.available =
          buckets[last.endpoint].capacity - hist[last.endpoint].spent
     /\ last.limit = buckets[last.endpoint].capacity
     /\ last.limit = hist[last.endpoint].first

\* get_status reported L - 1 after one allowed cost-1 call and an earlier
\* get_status on the same endpoint, the other endpoint being in use as well.
C15_Witness ==
  /\ last.kind = "status" /\ last.existed
  /\ Proper(last.endpoint)
  /\ hist[last.endpoint].still /\ hist[last.endpoint].plain
  /\ hist[last.endpoint].allowed = 1
  /\ last.available = last.limit - 1
  /\ ncalls = 4
  /\ \E x \in Endpoints \ {last.endpoint} : hist[x].spent >= 1

\* C16: the wrapper attaches the rate_limit block {remaining, limit,
\* reset_time} to the wrapped function's result exactly when check_limit
\* allowed the call and the result is a dict without "error", never to an
\* error result; the values are those check_limit returned before the call,
\* so the first call on a fresh bucket of limit L carries remaining == L - 1.
C16_AnnotatesSuccessOnly ==
  last.kind = "wrapper" =>
    /\ (last.rate_limit # Null) <=> (last.allowed /\ last.result = "dict_ok")
    /\ last.result = "dict_error" => last.rate_limit = Null
    /\ last.rate_limit # Null =>
         /\ last.rate_limit.remaining = last.info.remaining
         /\ last.rate_limit.limit = last.info.limit
         /\ last.rate_limit.reset_time = last.info.reset_time
         /\ last.rate_limit.limit = buckets[last.endpoint].capacity
         /\ last.ord = 1 =>
              last.rate_limit.remaining = buckets[last.endpoint].capacity - 1

\* The first call on the fresh "tfl" bucket went through the wrapper and its
\* successful result carries remaining == 499.
C16_Witness ==
  /\ last.kind = "wrapper" /\ last.allowed
  /\ last.endpoint = "tfl" /\ last.ord = 1
  /\ last.result = "dict_ok"
  /\ last.rate_limit # Null
  /\ last.rate_limit.remaining = TflLimit - 1
  /\ last.rate_limit.limit = TflLimit

\* C17: retry_after is sufficient: when check_limit(E, cost c) was denied
\* with retry_after = r, for whatever cost c > 0, and nothing else consumed
\* from or reset E since, a check_limit(E, cost c) made once the clock has
\* advanced by r seconds or more is allowed.
C17_RetryAfterSuffices ==
  (last.kind = "check_limit" /\ last.due /\ Proper(last.endpoint))
    => last.allowed

\* The same for the costs a full bucket can pay (c <= capacity).
RetryAfterSufficesWithinCapacity ==
  (/\ last.kind = "check_limit" /\ last.due
   /\ Proper(last.endpoint)
   /\ last.cost <= buckets[last.endpoint].capacity)
    => last.allowed

\* A due retry within the capacity was made (and went through).
RetryWithinCapacityMade ==
  /\ last.kind = "check_limit" /\ last.due /\ last.allowed
  /\ Proper(last.endpoint)

\* The thread holding the lock that t's next step needs (NoThread: none).
Blocker(t) ==
  CASE pc[t] \in {"get_bucket", "status", "reset"} -> rlock
    [] pc[t] \in {"consume", "peek"} -> block[call[t].endpoint]
    [] pc[t] = "reset_one" -> block[Head(loc[t].todo)]
    [] OTHER -> NoThread

\* The steps a thread has left, at most, before its call returns.
Rank(t) ==
  CASE pc[t] = "get_bucket" -> 4
    [] pc[t] = "consume" -> 3
    [] pc[t] = "consume_ret" -> 2
    [] pc[t] = "check_ret" -> 1
    [] pc[t] = "status" -> 3
    [] pc[t] = "peek" -> 2
    [] pc[t] = "peek_ret" -> 1
    [] pc[t] = "reset" -> Cardinality(Endpoints) + 1
    [] pc[t] = "reset_one" -> Len(loc[t].todo)
    [] OTHER -> 0

\* C18: no limiter operation blocks forever.  In no reachable state do
\* threads wait for the registry lock and bucket locks in a cycle: a thread
\* inside a call can take its next step, or waits for a lock whose holder can
\* take its own.  And every step of a call brings its return nearer, so that
\* under fair scheduling every call returns.
C18_NoCallBlocksForever ==
  /\ [](\A t \in Threads :
          ~Idle(t) =>
            \/ ENABLED Step(t)
            \/ /\ Blocker(t) \in Threads \ {t}
               /\ ENABLED Step(Blocker(t)))
  /\ [][\A t \in Threads :
          (Stepped(t) /\ ~Idle(t)) => Rank(t)' < Rank(t)]_vars

\* reset() holds the registry lock and waits for the bucket lock that a
\* consume holds; only the consuming thread can run.
C18_Witness ==
  \E t \in Threads, u \in Threads :
    /\ pc[t] = "reset_one" /\ rlock = t
    /\ pc[u] = "consume_ret"
    /\ Blocker(t) = u
    /\ ~ENABLED Step(t)

\* Under fair scheduling every call returns.
EveryCallReturns == \A t \in Threads : (~Idle(t)) ~> Idle(t)

\* The last call returned on the burst caller's bucket of limit L, no reset
\* or other cost having touched it.
BurstCall(L) ==
  /\ last.kind = "check_limit"
  /\ last.endpoint = BurstEndpoint
  /\ buckets[BurstEndpoint].capacity = L

C21_ConvenienceLimits ==
  [][/\ CheckMotLimit => last'.info.limit = 120
     /\ CheckCompaniesHouseLimit => last'.info.limit = 120
     /\ CheckTflLimit => last'.info.limit = 500
     /\ \A e \in LimiterEndpoints :
          CheckDefaultLimit(e) => last'.info.limit = 60]_vars

\* What does hold: a convenience function reports the limit it passes when
\* its call is the one that builds the endpoint's bucket.
ConvenienceLimitsOnFirstUse ==
  [][/\ CheckMotLimit /\ Absent(buckets, "mot_api") => last'.info.limit = 120
     /\ CheckCompaniesHouseLimit /\ Absent(buckets, "companies_house")
          => last'.info.limit = 120
     /\ CheckTflLimit /\ Absent(buckets, "tfl") => last'.info.limit = 500
     /\ \A e \in LimiterEndpoints :
          CheckDefaultLimit(e) /\ Absent(buckets, e)
            => last'.info.limit = 60]_vars

\* The endpoint whose bucket lock thread u holds or is about to take inside
\* consume, peek or reset (NoEndpoint: none).
LockOf(u) ==
  CASE pc[u] \in {"consume", "consume_ret", "peek", "peek_ret"} ->
         call[u].endpoint
    [] pc[u] = "reset_one" -> Head(loc[u].todo)
    [] OTHER -> NoEndpoint

\* Thread t is inside a check_limit or get_status call on endpoint e.
CallsOn(t, e) ==
  /\ ~Idle(t)
  /\ call[t].op \in {"check_limit", "get_status"}
  /\ call[t].endpoint = e

\* C22: contention on one endpoint never blocks another.  While a thread
\* holds or waits for the bucket lock of endpoint A (in consume, peek or
\* reset), a check_limit or get_status call of another thread on a different
\* endpoint B can take its next step.
C22_NoCrossEndpointBlocking ==
  \A t \in Threads : \A u \in Threads \ {t} :
    \A a \in Endpoints : \A b \in Endpoints \ {a} :
      (LockOf(u) = a /\ CallsOn(t, b)) => ENABLED Step(t)

\* What does hold: a thread in consume or peek on A delays no call on B.
ConsumeAndPeekBlockNoOtherEndpoint ==
  \A t \in Threads : \A u \in Threads \ {t} :
    \A a \in Endpoints : \A b \in Endpoints \ {a} :
      (LockOf(u) = a /\ pc[u] # "reset_one" /\ CallsOn(t, b))
        => ENABLED Step(t)

\* The last call on the bucket refilled it with a clock reading earlier than
\* its last_refill.
RefilledBackInTime ==
  /\ last.kind \in {"consume", "peek"}
  /\ last.now < last.before.last_refill

\* C23: when the clock that refill reads is earlier than last_refill, refill
\* takes the elapsed time as 0: it does not lower the token count, and the
\* count does not become negative.
C23_RefillClampsElapsed ==
  RefilledBackInTime =>
    /\ last.refilled.tokens >= last.before.tokens
    /\ last.refilled.tokens >= 0

\* C24: refill causes no drift.  While no consume intervenes and the clock
\* does not go back, the bucket holds, after any number of peeks,
\* min(capacity, tokens(t0) + rate * (t - t0)), where t0 is the time of the
\* last consume (or of construction) and t the time of the latest refill:
\* refilling at t1 and again at t2 gives what one refill at t2 gives.  In
\* particular two consecutive peeks with no clock advance between them return
\* the same available value, and a peek lowers no token count that was
\* within the capacity.
C24_RefillNoDrift ==
  LET b == buckets[TheBucket]
      s == hist.since
  IN /\ (hist.mono /\ hist.peeked.valid) =>
          b.tokens = Min(s.capacity * SecondsPerMinute,
                         s.tokens + s.rate * (b.last_refill - s.last_refill))
     /\ (last.kind = "peek" /\ last.prev.valid /\ last.prev.at = last.now)
          => last.available = last.prev.tokens
     /\ (/\ last.kind = "peek"
         /\ last.now >= last.before.last_refill
         /\ last.before.tokens <= last.before.capacity * SecondsPerMinute)
          => last.available >= last.before.tokens

\* Two peeks at different times after t0, each finding more tokens than the
\* one before and the bucket not yet full.
C24_Witness ==
  /\ last.kind = "peek" /\ last.prev.valid /\ hist.mono
  /\ last.prev.at < last.now
  /\ hist.since.tokens < last.prev.tokens
  /\ last.prev.tokens < last.available
  /\ last.available < last.refilled.capacity * SecondsPerMinute

\* C25: a denied consume(amount) changes the bucket by the lazy refill only:
\* it subtracts nothing and returns the post-refill token count, unchanged,
\* as remaining; and the consume that follows it, with an amount that fits
\* those remaining tokens, is granted.
C25_DeniedConsumeTakesNothing ==
  /\ (last.kind = "consume" /\ ~last.success) =>
       /\ buckets[TheBucket] = last.refilled
       /\ last.remaining = last.refilled.tokens
  /\ (/\ last.kind = "consume" /\ last.prev.valid
      /\ last.now >= last.prev.at
      /\ last.amount * SecondsPerMinute <= last.prev.tokens)
       => last.success

\* consume(2) was denied on a bucket holding one token, and the consume(1)
\* made right after it, at the same clock reading, is granted.
C25_Witness ==
  /\ last.kind = "consume" /\ last.prev.valid
  /\ last.now = last.prev.at
  /\ last.prev.tokens = SecondsPerMinute
  /\ last.amount = 1 /\ last.success
  /\ buckets[TheBucket].tokens = 0

\* C26: under any sequence of check_limit, get_status, reset(E) and reset()
\* calls, the endpoints that have a bucket only become more: no bucket is ever
\* removed or replaced by another object, and every bucket keeps the capacity
\* and the rate it was built with; a reset changes nothing but tokens and
\* last_refill of existing buckets.
C26_BucketsStayAsBuilt ==
  [][/\ \A e \in Endpoints :
          buckets[e].exists =>
            /\ buckets'[e].exists
            /\ buckets'[e].capacity = buckets[e].capacity
            /\ buckets'[e].rate = buckets[e].rate
            /\ created'[e] = created[e]
     /\ Len(keys') >= Len(keys)
     /\ SubSeq(keys', 1, Len(keys)) = keys
     /\ last'.kind = "reset" =>
          /\ keys' = keys
          /\ created' = created
          /\ \A e \in Endpoints :
               buckets'[e] \in {buckets[e],
                                [buckets[e] EXCEPT !.tokens = buckets'[e].tokens,
                                                   !.last_refill = buckets'[e].last_refill]}]_vars

\* reset() has just refilled two buckets that had tokens missing; both are
\* the objects built first, with their capacity and rate.
C26_Witness ==
  /\ last.kind = "reset" /\ last.endpoint = NoEndpoint
  /\ created = last.had
  /\ \A e \in Endpoints :
       /\ last.before[e].exists
       /\ last.before[e].tokens < buckets[e].tokens
       /\ buckets[e].capacity = last.before[e].capacity
       /\ buckets[e].rate = last.before[e].rate

\* C27: the bucket built on the first use of endpoint E starts full, with
\* capacity == tokens == R, and refills at R / 60 tokens per second (held as
\* rate * 60 == R), where R is the requests_per_minute passed, else E's entry
\* in the default table (mot_api 120, companies_house 120, tfl 500), else the
\* fallback 60.
C27_NewBucketFromResolvedRate ==
  (last.kind = "bucket" /\ last.isNew) =>
    LET e == last.endpoint
        R == IF last.requests_per_minute.given THEN last.requests_per_minute.v
             ELSE IF e = "mot_api" THEN 120
             ELSE IF e = "companies_house" THEN 120
             ELSE IF e = "tfl" THEN 500
             ELSE 60
    IN /\ last.bucket.capacity = R
       /\ last.bucket.tokens = R * SecondsPerMinute
       /\ last.bucket.rate = R
       /\ buckets[e] = last.bucket

\* _get_bucket built a bucket for an endpoint without a table entry and with
\* no requests_per_minute passed, while a table endpoint already has a bucket
\* built from the requests_per_minute passed for it.
C27_Witness ==
  /\ last.kind = "bucket" /\ last.isNew
  /\ last.endpoint = "x"
  /\ ~last.requests_per_minute.given
  /\ last.bucket.capacity = DefaultLimit
  /\ \E e \in {"mot_api", "companies_house", "tfl"} :
       buckets[e].exists /\ buckets[e].capacity = 2

\* C28: the rate bound.  With costs > 0 and a clock that never goes back, the
\* total cost granted on an endpoint since its bucket was last full (built,
\* or refilled by reset) is at most capacity + rate * (the time passed since
\* then), however the callers' steps interleave; while the clock stands still
\* after the first of these grants, the total is at most the capacity.
\* (A bucket built with a negative limit grants nothing.)
C28_RateBound ==
  \A e \in Endpoints :
    buckets[e].exists =>
      /\ buckets[e].capacity >= 0 =>
           hist[e].spent * SecondsPerMinute
             <= buckets[e].capacity * SecondsPerMinute
                + (IF hist[e].still THEN 0 ELSE buckets[e].rate * clock)
      /\ buckets[e].capacity < 0 => hist[e].spent = 0

\* Two threads were both granted on one endpoint, together the whole
\* capacity, the first not yet returned when the second was decided.
C28_Witness ==
  \E e \in Endpoints :
    /\ buckets[e].exists /\ buckets[e].capacity = 2
    /\ hist[e].spent = 2 /\ hist[e].still
    /\ \A t \in Threads : ~Idle(t) /\ call[t].endpoint = e
    /\ \E t \in Threads : pc[t] = "consume_ret" /\ loc[t].success
    /\ \E t \in Threads : pc[t] = "check_ret" /\ loc[t].success

\* C29: reset(E), called with an endpoint identifier E, modifies no bucket
\* but E's, for every string E that check_limit takes as an endpoint
\* identifier, the empty string included.
C29_ResetTouchesOnlyItsEndpoint ==
  (last.kind = "reset" /\ last.endpoint # NoEndpoint) =>
    \A x \in LimiterEndpoints \ {last.endpoint} : buckets[x] = last.before[x]

\* What does hold: the same for every identifier but the empty string.
ResetOfNonEmptyTouchesOnlyItsEndpoint ==
  (last.kind = "reset" /\ last.endpoint \notin {NoEndpoint, ""}) =>
    \A x \in LimiterEndpoints \ {last.endpoint} : buckets[x] = last.before[x]

\* C30: consume never adds tokens.  For every amount consume accepts, zero
\* and negative amounts included, the bucket holds after the call at most the
\* post-refill token count the decision was made on.
C30_ConsumeNeverAddsTokens ==
  last.kind = "consume" => buckets[TheBucket].tokens <= last.refilled.tokens

\* What does hold: the same for amounts >= 0.
ConsumeOfNonNegativeNeverAddsTokens ==
  (last.kind = "consume" /\ last.amount >= 0)
    => buckets[TheBucket].tokens <= last.refilled.tokens

====
